---- MODULE Spec2Model ----
(***************************************************************************)
(* The in-memory ERF server of src/server.go: a log of records guarded by  *)
(* one mutex, and three queries that rebuild the lineage graph from the    *)
(* log on every call.  stringSet and stringStack are those of              *)
(* src/unnamed/part_001.                                                   *)
(***************************************************************************)
EXTENDS Integers, Sequences, FiniteSets, TLC

\* ------------------------------------------------------------------ bounds

\* Longest log the model builds.
MaxLog == 3

\* Deepest work stack mapCanonicalIDs is followed to (it grows without limit
\* on some logs with a cycle).
MaxStack == 4

\* Resolution of a time.Time instant, in ticks per second; Unix() drops the
\* fraction.
TicksPerSecond == 2

\* ------------------------------------------------------------ input domains

Fingerprints == {"A", "B", "C"}
FewFingerprints == {"A", "B"}

\* A token as erf.ParseToken sees it: either it parses to claims, or not.
Token(sub, pre) == [valid |-> TRUE, Subject |-> sub, Previous |-> pre]
BadToken == [valid |-> FALSE, Subject |-> "", Previous |-> ""]

TokensOver(subs, pres) == {Token(s, p) : s \in subs, p \in pres} \cup {BadToken}

\* The instants records are appended at: the first and the last tick of one
\* second and the first tick of the next.  The instants asked from: one
\* inside each of three consecutive seconds.
Instants == {0, TicksPerSecond - 1, TicksPerSecond}
Sinces == {TicksPerSecond - 1, TicksPerSecond + 1, 2 * TicksPerSecond}

\* ------------------------------------------------------- time.Time.Unix()

Unix(t) == t \div TicksPerSecond

\* A *time.Time argument: nil, or a pointer to an instant.
NoSince == [nil |-> TRUE, t |-> 0]
SinceAt(t) == [nil |-> FALSE, t |-> t]

\* ------------------------------------------------------- Go maps, pointers

\* A nil *stringSet, and the value of newStringSet().
Nil == [nil |-> TRUE, set |-> {}, keys |-> <<>>]
newStringSet == [nil |-> FALSE, set |-> {}, keys |-> <<>>]

\* add with the new value put first: the newest child leads.
addFront(s, val) ==
  IF val \in s.set
  THEN s
  ELSE [s EXCEPT !.set = @ \cup {val}, !.keys = <<val>> \o @]

\* stringSet.add: appends val unless the set holds it already.
add(s, val) ==
  IF val \in s.set
  THEN s
  ELSE [s EXCEPT !.set = @ \cup {val}, !.keys = Append(@, val)]

\* stringSet.values: the strings in insertion order.
values(s) == s.keys

\* m[k] of a map[string]*stringSet: the zero value (nil) for a missing key.
Lookup(m, k) == IF k \in DOMAIN m THEN m[k] ELSE Nil

\* m[k] = v
Put(m, k, v) == [x \in DOMAIN m \cup {k} |-> IF x = k THEN v ELSE m[x]]

\* make(map[...]...)
EmptyMap == [x \in {} |-> Nil]

\* m[k] of a map[string]string: "" for a missing key.
LookupID(m, k) == IF k \in DOMAIN m THEN m[k] ELSE ""

\* ------------------------------------------------------------- stringStack

push(s, val) == Append(s, val)

\* A *string: nil, or a pointer to a string.
NilString == [nil |-> TRUE, val |-> ""]
StringAt(val) == [nil |-> FALSE, val |-> val]

\* pop: a pointer to the last pushed value (nil on an empty stack) and the
\* stack without it.
pop(s) ==
  IF Len(s) = 0
  THEN [ptr |-> NilString, s |-> s]
  ELSE [ptr |-> StringAt(s[Len(s)]), s |-> SubSeq(s, 1, Len(s) - 1)]

\* ---------------------------------------------------------- adjacencyLists

\* skipped with the comparison turned round: the newer records are dropped.
skippedNewer(since, record) == ~since.nil /\ record.utcTime > Unix(since.t)

\* skipped with <= for <: a record of the very second of since is dropped.
skippedInclusive(since, record) == ~since.nil /\ record.utcTime <= Unix(since.t)

\* Whether the loop skips a record (the continue of line 182).
skipped(since, record) == ~since.nil /\ record.utcTime < Unix(since.t)

\* Line 207 left out: a previous that is never a subject is no key of incoming.
registerNothing(incoming, pre) == incoming

\* Line 207: the previous node becomes a key of incoming, its value kept.
registerPrevious(incoming, pre) == Put(incoming, pre, Lookup(incoming, pre))

\* Lines 190-191 with nil for the value kept: a subject recorded after its
\* links loses them.
registerSubjectAnew(m, sub) == Put(m, sub, Nil)

\* Lines 190-191: the subject becomes a key of the map, its value kept.
registerSubject(m, sub) == Put(m, sub, Lookup(m, sub))

\* The loop body for one admitted record.
addRecord(res, record) ==
  LET sub == record.subject
      pre == record.previous
      in0 == registerSubject(res.incoming, sub)
      out0 == registerSubject(res.outgoing, sub)
  IN IF pre = ""
     THEN [incoming |-> in0, outgoing |-> out0]
     ELSE LET out1 == IF Lookup(out0, pre).nil
                      THEN Put(out0, pre, newStringSet)
                      ELSE out0
              out2 == Put(out1, pre, add(out1[pre], sub))
              in1 == IF Lookup(in0, sub).nil
                     THEN Put(in0, sub, newStringSet)
                     ELSE in0
              in2 == Put(in1, sub, add(in1[sub], pre))
              in3 == registerPrevious(in2, pre)
          IN [incoming |-> in3, outgoing |-> out2]

RECURSIVE scanRecords(_, _, _, _)
scanRecords(recs, since, i, res) ==
  IF i > Len(recs)
  THEN res
  ELSE scanRecords(recs, since, i + 1,
                   IF skipped(since, recs[i]) THEN res ELSE addRecord(res, recs[i]))

adjacencyLists(recs, since) ==
  scanRecords(recs, since, 1, [incoming |-> EmptyMap, outgoing |-> EmptyMap])

\* --------------------------------------------------------------- countSinks

\* countSinks without the test of line 158: every key counts.
countSinksAll(outgoingAdjacencyList) == Cardinality(DOMAIN outgoingAdjacencyList)

countSinks(outgoingAdjacencyList) ==
  Cardinality({k \in DOMAIN outgoingAdjacencyList : outgoingAdjacencyList[k].nil})

\* ---------------------------------------------------------- mapCanonicalIDs

\* childID without the test of line 122: every child starts an ID of its own.
childIDOwn(x, id, child) == child

\* The ID pushed for the child at index x (from 0) of a node whose ID is id.
childID(x, id, child) == IF x = 0 THEN id ELSE child

\* The body of the loop of line 114 for the node *n (lines 115-129): pops
\* its ID, stores the mapping, pushes the children and their IDs.
walkNode(ls, st) ==
  LET idp == pop(st.ids)
      id == idp.ptr.val
      out == Lookup(ls.outgoing, st.n.val)
      children == IF out.nil THEN <<>> ELSE values(out)
  IN [result |-> Put(st.result, st.n.val, id),
      ids |-> idp.s \o [x \in 1 .. Len(children) |-> childID(x - 1, id, children[x])],
      nodes |-> st.nodes \o children,
      n |-> st.n]

\* The post statement of the loop of line 114: n = nodes.pop().
nextNode(st) ==
  LET np == pop(st.nodes)
  IN [st EXCEPT !.nodes = np.s, !.n = np.ptr]

\* The state of the walk as a root node is entered (lines 109-114).
enterRoot(result0, node) ==
  [result |-> result0, ids |-> push(<<>>, node), nodes |-> <<>>, n |-> StringAt(node)]

\* roots with the test of line 108 made on outgoing: the walks start from
\* the sinks.
rootsOfOutgoing(ls) == {k \in DOMAIN ls.outgoing : ls.outgoing[k].nil}

\* The root nodes of the graph: the keys of incoming with no set.
roots(ls) == {k \in DOMAIN ls.incoming : ls.incoming[k].nil}

\* ------------------------------------------------------- OperationsByClient

\* The loop body with found read the wrong way round: a client seen before
\* gets a fresh map of operations.
tallyFresh(result0, canonicalIDs, record) ==
  LET clientID == LookupID(canonicalIDs, record.subject)
      updated == [o \in {record.operation} |-> 1]
  IN [c \in DOMAIN result0 \cup {clientID} |->
        IF c = clientID THEN updated ELSE result0[c]]

\* The loop body of lines 87-94 for one record.
tally(result0, canonicalIDs, record) ==
  LET clientID == LookupID(canonicalIDs, record.subject)
      found == clientID \in DOMAIN result0
      clientOperations == IF found THEN result0[clientID] ELSE <<>>
      count == IF record.operation \in DOMAIN clientOperations
               THEN clientOperations[record.operation]
               ELSE 0
      updated == [o \in DOMAIN clientOperations \cup {record.operation} |->
                    IF o = record.operation THEN count + 1 ELSE clientOperations[o]]
  IN [c \in DOMAIN result0 \cup {clientID} |->
        IF c = clientID THEN updated ELSE result0[c]]

RECURSIVE tallyRecords(_, _, _, _)
tallyRecords(recs, canonicalIDs, i, result0) ==
  IF i > Len(recs)
  THEN result0
  ELSE tallyRecords(recs, canonicalIDs, i + 1, tally(result0, canonicalIDs, recs[i]))

\* -------------------------------------------------------------------- state

VARIABLES
  records,   \* s.records
  mux,       \* s.mux is held
  pc,        \* "idle", or where the running OperationsByClient is: "range",
             \* "walk" (before the body of the loop of line 114), "next" (after it)
  lists,     \* OperationsByClient's lists
  todo,      \* the root keys the range of line 106 has not reached yet
  walk,      \* mapCanonicalIDs' result, ids, nodes and n
  ret,       \* the last call that returned, and what it returned
  callers,   \* where each concurrent caller is in its call, and what it holds
  completed  \* the records of the Appends that returned nil, in return order

vars == <<records, mux, pc, lists, todo, walk, ret, callers, completed>>

NoLists == [incoming |-> EmptyMap, outgoing |-> EmptyMap]
NoWalk == [result |-> <<>>, ids |-> <<>>, nodes |-> <<>>, n |-> NilString]

Returned(op, err, since, count, ops, ids) ==
  [op |-> op, err |-> err, since |-> since, count |-> count, ops |-> ops, ids |-> ids]

\* What Append returns, with the arguments it was called with.
AppendReturned(err, token, operation, time) ==
  [op |-> "Append", err |-> err, since |-> 0, count |-> 0, ops |-> <<>>, ids |-> <<>>,
   token |-> token, operation |-> operation, time |-> time]

\* The goroutines that call the server at the same time.
Callers == {"c1", "c2"}

NoCall == [op |-> "none", token |-> BadToken, operation |-> "", time |-> 0, since |-> 0]

\* A caller outside every call.
Idle ==
  [at |-> "idle", call |-> NoCall, saw |-> <<>>,
   out |-> Returned("none", FALSE, 0, 0, <<>>, <<>>)]

Init ==
  /\ records = <<>>
  /\ mux = FALSE
  /\ pc = "idle"
  /\ lists = NoLists
  /\ todo = {}
  /\ walk = NoWalk
  /\ ret = Returned("NewInMemory", FALSE, 0, 0, <<>>, <<>>)
  /\ callers = [c \in Callers |-> Idle]
  /\ completed = <<>>

\* ------------------------------------------------------------------ actions

\* A Lock that never waits: a call enters while another holds the mutex.
mutexAny(m) == TRUE

\* s.mux.Lock() goes through only while no call holds the mutex.
mutexFree(m) == ~m

\* erf.ParseToken: the claims of a token, or an error.
ParseToken(token) ==
  [err |-> ~token.valid, Subject |-> token.Subject, Previous |-> token.Previous]

\* Append with the new record put in front of the log.
appendRecordFront(recs, token, operation, time) ==
  LET parsed == ParseToken(token)
  IN IF parsed.err
     THEN [err |-> TRUE, records |-> recs]
     ELSE [err |-> FALSE,
           records |-> <<[subject |-> parsed.Subject,
                          previous |-> parsed.Previous,
                          operation |-> operation,
                          utcTime |-> Unix(time)]>> \o recs]

\* Append with the record stored before the token is checked.
appendRecordUnchecked(recs, token, operation, time) ==
  LET parsed == ParseToken(token)
  IN [err |-> parsed.err,
      records |-> Append(recs, [subject |-> parsed.Subject,
                                 previous |-> parsed.Previous,
                                 operation |-> operation,
                                 utcTime |-> Unix(time)])]

\* The log after Append(token, operation, time), and whether it failed.
appendRecord(recs, token, operation, time) ==
  LET parsed == ParseToken(token)
  IN IF parsed.err
     THEN [err |-> TRUE, records |-> recs]
     ELSE [err |-> FALSE,
           records |-> Append(recs, [subject |-> parsed.Subject,
                                      previous |-> parsed.Previous,
                                      operation |-> operation,
                                      utcTime |-> Unix(time)])]

AppendCall(token, operation, time) ==
  /\ ~mux
  /\ pc = "idle"
  /\ Len(records) < MaxLog
  /\ LET r == appendRecord(records, token, operation, time)
     IN /\ records' = r.records
        /\ ret' = AppendReturned(r.err, token, operation, time)
        /\ completed' = IF r.err
                        THEN completed
                        ELSE Append(completed, r.records[Len(r.records)])
  /\ UNCHANGED <<mux, pc, lists, todo, walk, callers>>

TotalClients ==
  /\ ~mux
  /\ pc = "idle"
  /\ ret' = Returned("TotalClients", FALSE, 0,
                     countSinks(adjacencyLists(records, NoSince).outgoing), <<>>, <<>>)
  /\ UNCHANGED <<records, mux, pc, lists, todo, walk, callers, completed>>

RecentClients(since) ==
  /\ ~mux
  /\ pc = "idle"
  /\ ret' = Returned("RecentClients", FALSE, since,
                     countSinks(adjacencyLists(records, SinceAt(since)).outgoing),
                     <<>>, <<>>)
  /\ UNCHANGED <<records, mux, pc, lists, todo, walk, callers, completed>>

\* OperationsByClient takes the lock, builds the lists and enters
\* mapCanonicalIDs (lines 78-104).
OperationsByClient ==
  /\ ~mux
  /\ pc = "idle"
  /\ mux' = TRUE
  /\ pc' = "range"
  /\ lists' = adjacencyLists(records, NoSince)
  /\ todo' = roots(lists')
  /\ walk' = NoWalk
  /\ UNCHANGED <<records, ret, callers, completed>>

\* The range of line 106 reaches a root node, in whatever order the map
\* yields its keys; the keys that are no roots are passed over (line 108).
RangeRoot ==
  /\ pc = "range"
  /\ \E node \in todo :
       /\ todo' = todo \ {node}
       /\ walk' = enterRoot(walk.result, node)
  /\ pc' = "walk"
  /\ UNCHANGED <<records, mux, lists, ret, callers, completed>>

\* The body of the loop of line 114, for the node *n.
WalkNode ==
  /\ pc = "walk"
  /\ Len(walk.nodes) <= MaxStack
  /\ walk' = walkNode(lists, walk)
  /\ pc' = "next"
  /\ UNCHANGED <<records, mux, lists, todo, ret, callers, completed>>

\* The loop of line 114 goes on to the node on top of the stack, or ends
\* on an empty stack.
NextNode ==
  /\ pc = "next"
  /\ walk' = nextNode(walk)
  /\ pc' = IF walk'.n.nil THEN "range" ELSE "walk"
  /\ UNCHANGED <<records, mux, lists, todo, ret, callers, completed>>

\* The range is over: the records are tallied, the lock is released and the
\* call returns (lines 86-97).
ReturnOperations ==
  /\ pc = "range"
  /\ todo = {}
  /\ ret' = Returned("OperationsByClient", FALSE, 0, 0,
                     tallyRecords(records, walk.result, 1, <<>>), walk.result)
  /\ mux' = FALSE
  /\ pc' = "idle"
  /\ lists' = NoLists
  /\ walk' = NoWalk
  /\ UNCHANGED <<records, todo, callers, completed>>

NextOver(tokens, operations, times, sinces) ==
  \/ \E token \in tokens, operation \in operations, time \in times :
       AppendCall(token, operation, time)
  \/ TotalClients
  \/ \E since \in sinces : RecentClients(since)
  \/ OperationsByClient
  \/ RangeRoot
  \/ WalkNode
  \/ NextNode
  \/ ReturnOperations

\* The lineage: three fingerprints, every link between them.
Next == NextOver(TokensOver(Fingerprints, Fingerprints \cup {""}), {"op"}, {0}, {0})

Spec == Init /\ [][Next]_vars

\* A running call keeps running: the goroutine inside OperationsByClient is
\* scheduled again until it returns.
SpecFair == Spec /\ WF_vars(RangeRoot \/ WalkNode \/ NextNode \/ ReturnOperations)

\* The counts: two fingerprints and the empty subject, records of two seconds,
\* no OperationsByClient.
NextClients ==
  \/ \E token \in TokensOver(FewFingerprints \cup {""}, FewFingerprints \cup {""}),
        time \in Instants :
       AppendCall(token, "op", time)
  \/ TotalClients
  \/ \E since \in Sinces : RecentClients(since)

SpecClients == Init /\ [][NextClients]_vars

\* The tallies: two fingerprints, two operation names.
NextOps == NextOver(TokensOver(FewFingerprints, FewFingerprints \cup {""}),
                    {"op", "op2"}, {0}, {0})

SpecOps == Init /\ [][NextOps]_vars

\* The graph: a parent of two children and a chain, records of the first
\* tick of two seconds, no OperationsByClient.
NextGraph ==
  \/ \E token \in TokensOver(FewFingerprints, {"", "A", "C"}),
        time \in {0, TicksPerSecond} :
       AppendCall(token, "op", time)
  \/ TotalClients
  \/ \E since \in Sinces : RecentClients(since)

SpecGraph == Init /\ [][NextGraph]_vars

\* The log: one fingerprint, two operation names, records of two seconds.
NextLog == NextOver(TokensOver({"A"}, {"", "A"}), {"op", "op2"}, Instants, Sinces)

SpecLog == Init /\ [][NextLog]_vars

\* ------------------------------------------------------ concurrent callers

\* The Appends called whose record is not in the log yet.
PendingAppends ==
  {c \in Callers : callers[c].call.op = "Append" /\ callers[c].at \in {"Lock", "body"}}

\* A goroutine calls an operation and reaches its s.mux.Lock().
Invoke(c, call) ==
  /\ callers[c].at = "idle"
  /\ call.op = "Append" => Len(records) + Cardinality(PendingAppends) < MaxLog
  /\ callers' = [callers EXCEPT ![c] = [Idle EXCEPT !.at = "Lock", !.call = call]]
  /\ UNCHANGED <<records, mux, pc, lists, todo, walk, ret, completed>>

\* s.mux.Lock() returns: the caller holds the mutex and is at its body.
Lock(c) ==
  /\ callers[c].at = "Lock"
  /\ mutexFree(mux)
  /\ mux' = TRUE
  /\ callers' = [callers EXCEPT ![c].at = "body", ![c].saw = completed]
  /\ UNCHANGED <<records, pc, lists, todo, walk, ret, completed>>

\* The body of Append (lines 219-231).
RunAppend(c) ==
  /\ callers[c].at = "body"
  /\ callers[c].call.op = "Append"
  /\ LET call == callers[c].call
         r == appendRecord(records, call.token, call.operation, call.time)
     IN /\ records' = r.records
        /\ callers' = [callers EXCEPT
                         ![c].at = "Unlock",
                         ![c].out = AppendReturned(r.err, call.token, call.operation,
                                                   call.time)]
  /\ UNCHANGED <<mux, pc, lists, todo, walk, ret, completed>>

\* The body of TotalClients (line 148).
RunTotalClients(c) ==
  /\ callers[c].at = "body"
  /\ callers[c].call.op = "TotalClients"
  /\ callers' = [callers EXCEPT
                   ![c].at = "Unlock",
                   ![c].out = Returned("TotalClients", FALSE, 0,
                                       countSinks(adjacencyLists(records, NoSince).outgoing),
                                       <<>>, <<>>)]
  /\ UNCHANGED <<records, mux, pc, lists, todo, walk, ret, completed>>

\* The body of RecentClients (line 141).
RunRecentClients(c) ==
  /\ callers[c].at = "body"
  /\ callers[c].call.op = "RecentClients"
  /\ LET since == callers[c].call.since
     IN callers' = [callers EXCEPT
                      ![c].at = "Unlock",
                      ![c].out = Returned("RecentClients", FALSE, since,
                                          countSinks(adjacencyLists(records,
                                                                    SinceAt(since)).outgoing),
                                          <<>>, <<>>)]
  /\ UNCHANGED <<records, mux, pc, lists, todo, walk, ret, completed>>

\* The body of OperationsByClient builds the lists and enters
\* mapCanonicalIDs (lines 81-104); RangeRoot, WalkNode and NextNode go on.
RunOperations(c) ==
  /\ callers[c].at = "body"
  /\ callers[c].call.op = "OperationsByClient"
  /\ pc = "idle"
  /\ pc' = "range"
  /\ lists' = adjacencyLists(records, NoSince)
  /\ todo' = roots(lists')
  /\ walk' = NoWalk
  /\ callers' = [callers EXCEPT ![c].at = "walk"]
  /\ UNCHANGED <<records, mux, ret, completed>>

\* The range of line 106 is over: the records are tallied (lines 86-95).
EndOperations(c) ==
  /\ callers[c].at = "walk"
  /\ pc = "range"
  /\ todo = {}
  /\ pc' = "idle"
  /\ lists' = NoLists
  /\ walk' = NoWalk
  /\ callers' = [callers EXCEPT
                   ![c].at = "Unlock",
                   ![c].out = Returned("OperationsByClient", FALSE, 0, 0,
                                       tallyRecords(records, walk.result, 1, <<>>),
                                       walk.result)]
  /\ UNCHANGED <<records, mux, todo, ret, completed>>

\* The deferred s.mux.Unlock() runs and the call returns.
Unlock(c) ==
  /\ callers[c].at = "Unlock"
  /\ mux' = FALSE
  /\ ret' = callers[c].out
  /\ completed' = IF callers[c].call.op = "Append" /\ ~callers[c].out.err
                  THEN Append(completed, records[Len(records)])
                  ELSE completed
  /\ callers' = [callers EXCEPT ![c] = Idle]
  /\ UNCHANGED <<records, pc, lists, todo, walk>>

\* The calls of the concurrent callers: two fingerprints, links from A.
Calls ==
  {[NoCall EXCEPT !.op = "Append", !.token = token, !.operation = "op"] :
     token \in TokensOver({"A", "B"}, {"", "A"})}
    \cup {[NoCall EXCEPT !.op = op] : op \in {"TotalClients", "OperationsByClient"}}
    \cup {[NoCall EXCEPT !.op = "RecentClients", !.since = TicksPerSecond]}

NextCallers ==
  \/ \E c \in Callers, call \in Calls : Invoke(c, call)
  \/ \E c \in Callers : Lock(c)
  \/ \E c \in Callers : RunAppend(c)
  \/ \E c \in Callers : RunTotalClients(c)
  \/ \E c \in Callers : RunRecentClients(c)
  \/ \E c \in Callers : RunOperations(c)
  \/ RangeRoot
  \/ WalkNode
  \/ NextNode
  \/ \E c \in Callers : EndOperations(c)
  \/ \E c \in Callers : Unlock(c)

SpecCallers == Init /\ [][NextCallers]_vars

\* ---------------------------------------------------------------- the log

Indices(recs) == 1 .. Len(recs)

\* The fingerprints that are the subject of a record among those at is.
SubjectsAt(recs, is) == {recs[i].subject : i \in is}

\* The fingerprints that are the non-empty previous of a record among those at is.
PreviousesAt(recs, is) == {recs[i].previous : i \in is} \ {""}

\* The records a query from the instant t admits.
Admitted(recs, t) == {i \in Indices(recs) : recs[i].utcTime >= Unix(t)}

\* What RecentClients(t) returns on the log recs.
RecentCount(recs, t) == countSinks(adjacencyLists(recs, SinceAt(t)).outgoing)

\* ------------------------------------------------------------------- claims

\* C1: TotalClients() is the number of distinct fingerprints that are the
\* subject of some record and the non-empty previous of none; a fingerprint
\* with several records is counted once.
TotalClientsCountsSinks ==
  ret.op = "TotalClients" =>
    ret.count = Cardinality(SubjectsAt(records, Indices(records))
                              \ PreviousesAt(records, Indices(records)))

\* A log with a link and a subject recorded twice has been counted.
TotalClientsWitness ==
  /\ ret.op = "TotalClients"
  /\ ret.count = 1
  /\ Len(records) = 3
  /\ \E i, j \in Indices(records) : i # j /\ records[i].subject = records[j].subject
  /\ \E i, j \in Indices(records) : records[i].previous = records[j].subject

\* C5 as claimed: for t1 <= t2, RecentClients(t2) <= RecentClients(t1) on
\* every log.
RecentClientsNonIncreasing ==
  ret.op = "RecentClients" =>
    \A t \in Sinces : t >= ret.since => RecentCount(records, t) <= ret.count

\* No record of a fingerprint is stored with a later second than a record
\* that names the fingerprint as previous.
NoUseAfterRollover(recs) ==
  \A i, j \in Indices(recs) :
    (recs[j].previous # "" /\ recs[j].previous = recs[i].subject)
      => recs[i].utcTime <= recs[j].utcTime

\* C5, amended: for t1 <= t2, RecentClients(t2) <= RecentClients(t1) on every
\* log in which no fingerprint has a record stored with a later epoch second
\* than a record naming it as previous.
RecentClientsNonIncreasingInOrder ==
  (ret.op = "RecentClients" /\ NoUseAfterRollover(records)) =>
    \A t \in Sinces : t >= ret.since => RecentCount(records, t) <= ret.count

\* On such a log with a link, a later since has given a smaller count.
RecentClientsNonIncreasingWitness ==
  /\ ret.op = "RecentClients"
  /\ NoUseAfterRollover(records)
  /\ PreviousesAt(records, Indices(records)) # {}
  /\ \E t \in Sinces : t > ret.since /\ RecentCount(records, t) < ret.count

\* C6: RecentClients(since) counts the distinct subjects of the records whose
\* stored second is >= the second of since that are the previous of no such
\* record.
RecentClientsCountsWindow ==
  ret.op = "RecentClients" =>
    ret.count = Cardinality(SubjectsAt(records, Admitted(records, ret.since))
                              \ PreviousesAt(records, Admitted(records, ret.since)))

\* A fingerprint whose only successor was recorded before the window has been
\* counted, by a query from inside the second of one of its records.
RecentClientsWindowWitness ==
  /\ ret.op = "RecentClients"
  /\ ret.since % TicksPerSecond # 0
  /\ ret.count = 1
  /\ \E i \in Admitted(records, ret.since) :
       /\ records[i].utcTime = Unix(ret.since)
       /\ \E j \in Indices(records) \ Admitted(records, ret.since) :
            records[j].previous = records[i].subject

\* C7: an Append whose token is rejected returns an error and leaves the log,
\* and with it what TotalClients and RecentClients return, as it was.
RejectedAppendChangesNothing ==
  [][(ret'.op = "Append" /\ ret'.err) =>
       /\ records' = records
       /\ countSinks(adjacencyLists(records', NoSince).outgoing)
            = countSinks(adjacencyLists(records, NoSince).outgoing)
       /\ \A t \in Sinces : RecentCount(records', t) = RecentCount(records, t)]_vars

\* An Append has been rejected on a log that holds records.
RejectedAppendWitness ==
  /\ ret.op = "Append"
  /\ ret.err
  /\ Len(records) = 2

\* ------------------------------------------------ the lineage of a log

\* The canonical ID OperationsByClient used for the fingerprint f.
ID(f) == LookupID(ret.ids, f)

ChildrenOf(recs, p) == {recs[i].subject : i \in {j \in Indices(recs) : recs[j].previous = p}}

ParentsOf(recs, c) ==
  {recs[i].previous : i \in {j \in Indices(recs) : recs[j].subject = c}} \ {""}

\* The first record that links p to c.
FirstIndex(recs, p, c) ==
  CHOOSE i \in Indices(recs) :
    /\ recs[i].previous = p /\ recs[i].subject = c
    /\ \A j \in 1 .. (i - 1) : ~(recs[j].previous = p /\ recs[j].subject = c)

IsFirstChild(recs, p, c) ==
  /\ c \in ChildrenOf(recs, p)
  /\ \A d \in ChildrenOf(recs, p) \ {c} : FirstIndex(recs, p, c) < FirstIndex(recs, p, d)

NodesOf(recs) == SubjectsAt(recs, Indices(recs)) \cup PreviousesAt(recs, Indices(recs))

RootsOf(recs) == {f \in NodesOf(recs) : ParentsOf(recs, f) = {}}

\* The fingerprints links lead to from those of from, these included.
RECURSIVE ReachFrom(_, _)
ReachFrom(recs, from) ==
  LET more == from \cup UNION {ChildrenOf(recs, p) : p \in from \ {""}}
  IN IF more = from THEN from ELSE ReachFrom(recs, more)

\* The first child of p, its first child, and so on.
RECURSIVE FirstChainFrom(_, _, _)
FirstChainFrom(recs, p, seen) ==
  LET first == {c \in ChildrenOf(recs, p) : IsFirstChild(recs, p, c)}
  IN IF first = {} \/ first \subseteq seen
     THEN seen
     ELSE FirstChainFrom(recs, CHOOSE c \in first : TRUE, seen \cup first)

FirstChain(recs, r) == FirstChainFrom(recs, r, {})

\* The fingerprints that are a previous and never a subject.
UnseenRoots(recs) ==
  PreviousesAt(recs, Indices(recs)) \ SubjectsAt(recs, Indices(recs))

RECURSIVE SumOver(_, _)
SumOver(f, keys) ==
  IF keys = {}
  THEN 0
  ELSE LET k == CHOOSE x \in keys : TRUE IN f[k] + SumOver(f, keys \ {k})

\* The operations OperationsByClient returned for the canonical ID id.
CountedUnder(id) == IF id \in DOMAIN ret.ops THEN SumOver(ret.ops[id], DOMAIN ret.ops[id]) ELSE 0

\* C2 as claimed: in the mapping OperationsByClient used, every node has
\* its parent's canonical ID if it is the parent's first child, and its own
\* fingerprint if it is a later child (said of the nodes the mapping holds).
BranchRule ==
  ret.op = "OperationsByClient" =>
    \A c \in DOMAIN ret.ids : \A p \in ParentsOf(records, c) \cap DOMAIN ret.ids :
      ID(c) = IF IsFirstChild(records, p, c) THEN ID(p) ELSE c

\* C2, amended: every fingerprint that has an entry in the mapping and one
\* distinct previous in the log has its parent's canonical ID if it is the
\* parent's first child, and its own fingerprint if it is a later child.
BranchRuleOneParent ==
  ret.op = "OperationsByClient" =>
    \A c \in DOMAIN ret.ids : \A p \in ParentsOf(records, c) :
      ParentsOf(records, c) = {p} =>
        ID(c) = IF IsFirstChild(records, p, c) THEN ID(p) ELSE c

\* A node that is no root has branched: its first child has its ID, which is
\* not the node's own fingerprint, and its second child has an ID of its own.
BranchRuleWitness ==
  /\ ret.op = "OperationsByClient"
  /\ \E x, y, z \in DOMAIN ret.ids :
       /\ y # z
       /\ ParentsOf(records, y) = {x} /\ ParentsOf(records, z) = {x}
       /\ IsFirstChild(records, x, y)
       /\ ID(y) = ID(x) /\ ID(z) = z

\* C8: every subject of the log has an entry in the mapping, and every key
\* of the result of OperationsByClient is the ID of some fingerprint.
MappingIsTotal ==
  ret.op = "OperationsByClient" =>
    /\ SubjectsAt(records, Indices(records)) \subseteq DOMAIN ret.ids
    /\ DOMAIN ret.ops \subseteq {ret.ids[f] : f \in DOMAIN ret.ids}

\* C9: each count of the result of OperationsByClient is the number of
\* records of the log with that operation whose subject resolves to that
\* canonical ID; the counts of an ID add up to the number of its records.
TalliesCountRecords ==
  ret.op = "OperationsByClient" =>
    LET of(id) == {i \in Indices(records) : ID(records[i].subject) = id}
    IN /\ DOMAIN ret.ops = {ID(records[i].subject) : i \in Indices(records)}
       /\ \A id \in DOMAIN ret.ops :
            /\ DOMAIN ret.ops[id] = {records[i].operation : i \in of(id)}
            /\ \A o \in DOMAIN ret.ops[id] :
                 ret.ops[id][o]
                   = Cardinality({i \in of(id) : records[i].operation = o})
            /\ CountedUnder(id) = Cardinality(of(id))

\* Records of two fingerprints and two operations have been counted under
\* one canonical ID.
TalliesWitness ==
  /\ ret.op = "OperationsByClient"
  /\ \E id \in DOMAIN ret.ops :
       /\ Cardinality(DOMAIN ret.ops[id]) = 2
       /\ CountedUnder(id) = 3
       /\ \E i, j \in Indices(records) :
            /\ records[i].subject # records[j].subject
            /\ ID(records[i].subject) = id /\ ID(records[j].subject) = id

\* What C10 says of the unseen root r.
CountedUnderRoot(r) ==
  /\ \A c \in FirstChain(records, r) : ID(c) = r
  /\ CountedUnder(r)
       >= Cardinality({i \in Indices(records) : records[i].subject \in FirstChain(records, r)})

\* C10 as claimed: the records of the first child of a fingerprint that is
\* only ever a previous, and of the chain of first children below it, are
\* counted under that fingerprint.
UnseenRootOwnsFirstChain ==
  ret.op = "OperationsByClient" =>
    \A r \in UnseenRoots(records) : CountedUnderRoot(r)

\* No fingerprint of the chain of first children of r descends from
\* another root.
ChainOfOneRoot(recs, r) ==
  FirstChain(recs, r) \cap ReachFrom(recs, RootsOf(recs) \ {r}) = {}

\* C10, amended: the records of that chain are counted under the unseen
\* fingerprint provided no fingerprint of the chain descends from another
\* root as well.
UnseenRootOwnsItsFirstChain ==
  ret.op = "OperationsByClient" =>
    \A r \in UnseenRoots(records) :
      ChainOfOneRoot(records, r) => CountedUnderRoot(r)

\* The records of a chain of two below an unseen root have been counted
\* under it.
UnseenRootWitness ==
  /\ ret.op = "OperationsByClient"
  /\ \E r \in UnseenRoots(records) :
       /\ ChainOfOneRoot(records, r)
       /\ Cardinality(FirstChain(records, r)) = 2
       /\ CountedUnder(r) = 3

\* C3: two calls of the same query with no Append between them return the
\* same.
QueriesAreIdempotent ==
  [][(/\ ret'.op = ret.op
      /\ ret.op \in {"TotalClients", "RecentClients", "OperationsByClient"}
      /\ ret'.since = ret.since
      /\ records' = records)
       => (ret'.count = ret.count /\ ret'.ops = ret.ops)]_vars

\* The callers inside an operation body: between Lock and Unlock.
InBody == {c \in Callers : callers[c].at \in {"body", "walk", "Unlock"}}

\* What the query of the call gives on the log recs, given the mapping ids
\* the walk ended with.
QueryOn(call, recs, ids) ==
  CASE call.op = "TotalClients" ->
         Returned("TotalClients", FALSE, 0,
                  countSinks(adjacencyLists(recs, NoSince).outgoing), <<>>, <<>>)
    [] call.op = "RecentClients" ->
         Returned("RecentClients", FALSE, call.since,
                  countSinks(adjacencyLists(recs, SinceAt(call.since)).outgoing),
                  <<>>, <<>>)
    [] call.op = "OperationsByClient" ->
         Returned("OperationsByClient", FALSE, 0, 0,
                  tallyRecords(recs, ids, 1, <<>>), ids)

\* C11: with concurrent callers at most one operation body runs at a time,
\* the log a body reads is exactly the records of the Appends that returned
\* before the call took the lock, in the order they returned, and what a
\* query is about to return is computed from that log.
BodiesAreSerialized ==
  /\ Cardinality(InBody) <= 1
  /\ \A c \in InBody :
       LET me == callers[c]
       IN /\ me.saw = completed
          /\ (me.call.op # "Append" \/ me.at = "body") => records = me.saw
          /\ (me.call.op = "Append" /\ me.at = "Unlock") =>
               /\ SubSeq(records, 1, Len(me.saw)) = me.saw
               /\ Len(records) = Len(me.saw) + (IF me.out.err THEN 0 ELSE 1)
          /\ me.at = "walk" => lists = adjacencyLists(me.saw, NoSince)
          /\ (me.call.op # "Append" /\ me.at = "Unlock") =>
               me.out = QueryOn(me.call, me.saw, me.out.ids)

\* A query is about to return a count of a log of two completed Appends
\* while the other caller waits at the lock with an Append.
BodiesAreSerializedWitness ==
  \E c, d \in Callers :
    /\ callers[c].at = "Unlock"
    /\ callers[c].call.op = "TotalClients"
    /\ callers[c].out.count = 1
    /\ Len(callers[c].saw) = 2
    /\ callers[d].at = "Lock"
    /\ callers[d].call.op = "Append"

\* C12: the log is append-only and the queries are read-only: an Append that
\* returns nil makes the log one record longer, the new record being last and
\* holding the token's subject and previous, the given operation and the
\* given time in epoch seconds, the earlier records as they were; every
\* other step, those of the three queries among them, leaves the log alone.
LogIsAppendOnly ==
  [][/\ completed' # completed =>
          /\ ret'.op = "Append"
          /\ ~ret'.err
          /\ Len(records') = Len(records) + 1
          /\ SubSeq(records', 1, Len(records)) = records
          /\ records'[Len(records')] =
               [subject |-> ret'.token.Subject,
                previous |-> ret'.token.Previous,
                operation |-> ret'.operation,
                utcTime |-> ret'.time \div TicksPerSecond]
     /\ completed' = completed => records' = records
     /\ (mux \/ mux') => records' = records
     /\ ret'.op \in {"TotalClients", "RecentClients", "OperationsByClient"} =>
          records' = records]_vars

\* An Append of the second second and the second operation name has
\* returned nil on a log of two different records.
LogIsAppendOnlyWitness ==
  /\ ret.op = "Append"
  /\ ~ret.err
  /\ ret.time = TicksPerSecond
  /\ ret.operation = "op2"
  /\ Len(records) = 3
  /\ records[3] = [subject |-> "A", previous |-> "A", operation |-> "op2", utcTime |-> 1]
  /\ records[1] # records[3]
  /\ records[2] # records[3]

\* C13: while no Append has returned nil, TotalClients() returns 0,
\* RecentClients(since) returns 0 for every since, and OperationsByClient()
\* returns the empty mapping; none of them reports an error.
EmptyStoreAnswersNothing ==
  (completed = <<>> /\ ret.op \in {"TotalClients", "RecentClients", "OperationsByClient"}) =>
    /\ ~ret.err
    /\ ret.count = 0
    /\ DOMAIN ret.ops = {}
    /\ \A t \in Sinces : RecentCount(records, t) = 0
    /\ countSinks(adjacencyLists(records, NoSince).outgoing) = 0

\* RecentClients has returned 0 on a store on which no Append has succeeded.
EmptyStoreWitness ==
  /\ completed = <<>>
  /\ records = <<>>
  /\ ret.op = "RecentClients"
  /\ ret.since = TicksPerSecond + 1
  /\ ret.count = 0

\* The time filter of the query that returned last: none for TotalClients.
LastFilter == IF ret.op = "RecentClients" THEN SinceAt(ret.since) ELSE NoSince

\* The records a filter admits.
AdmittedBy(recs, since) ==
  {i \in Indices(recs) : since.nil \/ recs[i].utcTime >= since.t \div TicksPerSecond}

\* The members of the set a map holds at k; none where it holds no set.
MembersOf(m, k) ==
  IF k \in DOMAIN m /\ ~m[k].nil
  THEN {values(m[k])[i] : i \in 1 .. Len(values(m[k]))}
  ELSE {}

\* C14: the graph adjacencyLists builds for the log and the filter of a
\* count: incoming and outgoing have the same keys, the subjects and the
\* non-empty previouses of the admitted records; y is in outgoing[x] exactly
\* when x is in incoming[y], exactly when an admitted record has the
\* (non-empty) previous x and the subject y; a key has no incoming set exactly
\* when no admitted record names it as subject with a non-empty previous, and
\* no outgoing set exactly when no admitted record names it as previous.
GraphMatchesRecords ==
  ret.op \in {"TotalClients", "RecentClients"} =>
    LET g == adjacencyLists(records, LastFilter)
        adm == AdmittedBy(records, LastFilter)
        keys == SubjectsAt(records, adm) \cup PreviousesAt(records, adm)
        Edge(x, y) == x # "" /\ \E i \in adm : records[i].previous = x
                                                /\ records[i].subject = y
    IN /\ DOMAIN g.incoming = keys
       /\ DOMAIN g.outgoing = keys
       /\ \A x, y \in keys \cup {""} :
            /\ (y \in MembersOf(g.outgoing, x)) = (x \in MembersOf(g.incoming, y))
            /\ (y \in MembersOf(g.outgoing, x)) = Edge(x, y)
       /\ \A k \in keys :
            /\ MembersOf(g.outgoing, k) \subseteq keys
            /\ MembersOf(g.incoming, k) \subseteq keys
            /\ g.incoming[k].nil = ~(\E x \in keys : Edge(x, k))
            /\ g.outgoing[k].nil = ~(\E y \in keys : Edge(k, y))

\* RecentClients has returned on a log with a record the filter drops and an
\* admitted link whose previous is the subject of no admitted record.
GraphMatchesRecordsWitness ==
  /\ ret.op = "RecentClients"
  /\ AdmittedBy(records, LastFilter) # Indices(records)
  /\ \E i \in AdmittedBy(records, LastFilter) :
       /\ records[i].previous # ""
       /\ records[i].previous
            \notin SubjectsAt(records, AdmittedBy(records, LastFilter))
       /\ records[i].previous \in SubjectsAt(records, Indices(records))

Forest(recs) ==
  /\ \A f \in NodesOf(recs) : Cardinality(ParentsOf(recs, f)) <= 1
  /\ \A f \in NodesOf(recs) : f \notin ReachFrom(recs, ChildrenOf(recs, f))

\* The canonical ID of f in a forest, read off the log alone: a root has its
\* own, a first child its parent's, a later child its own.
RECURSIVE CanonOf(_, _)
CanonOf(recs, f) ==
  IF ParentsOf(recs, f) = {}
  THEN f
  ELSE LET p == CHOOSE q \in ParentsOf(recs, f) : TRUE
       IN IF IsFirstChild(recs, p, f) THEN CanonOf(recs, p) ELSE f

\* C16: on a log whose links form a forest mapCanonicalIDs never comes to a
\* fingerprint it has assigned already, the mapping it returns has every
\* fingerprint of the graph as a key and is the one the log alone determines,
\* whatever the order the roots were walked in, and the result of
\* OperationsByClient is the tally of the log under that mapping.
ForestMappingIsDetermined ==
  Forest(records) =>
    /\ pc = "walk" => walk.n.val \notin DOMAIN walk.result
    /\ ret.op = "OperationsByClient" =>
         LET of(id) == {i \in Indices(records) : CanonOf(records, records[i].subject) = id}
         IN /\ DOMAIN ret.ids = NodesOf(records)
            /\ \A f \in NodesOf(records) : ret.ids[f] = CanonOf(records, f)
            /\ DOMAIN ret.ops = {CanonOf(records, records[i].subject) : i \in Indices(records)}
            /\ \A id \in DOMAIN ret.ops :
                 /\ DOMAIN ret.ops[id] = {records[i].operation : i \in of(id)}
                 /\ \A o \in DOMAIN ret.ops[id] :
                      ret.ops[id][o]
                        = Cardinality({i \in of(id) : records[i].operation = o})

\* OperationsByClient has returned on a forest of two roots, one of them
\* with a child that continues its ID.
ForestWitness ==
  /\ ret.op = "OperationsByClient"
  /\ Forest(records)
  /\ Cardinality(RootsOf(records)) = 2
  /\ \E f \in NodesOf(records) : ret.ids[f] # f
  /\ Cardinality(DOMAIN ret.ops) = 2

\* The log recs with its records in the order q gives.
Shuffled(recs, q) == [i \in Indices(recs) |-> recs[q[i]]]

\* C17: the count TotalClients() or RecentClients(since) has returned is the
\* count the same call returns on every log that holds the same records in
\* another order.
CountsIgnoreOrder ==
  ret.op \in {"TotalClients", "RecentClients"} =>
    \A q \in Permutations(Indices(records)) :
      countSinks(adjacencyLists(Shuffled(records, q), LastFilter).outgoing) = ret.count

\* RecentClients has counted a log of three different records, old and new,
\* in which a fingerprint is recorded before the link that replaces it.
CountsIgnoreOrderWitness ==
  /\ ret.op = "RecentClients"
  /\ ret.count = 1
  /\ Len(records) = 3
  /\ Cardinality({records[i] : i \in Indices(records)}) = 3
  /\ AdmittedBy(records, LastFilter) # Indices(records)
  /\ \E i, j \in AdmittedBy(records, LastFilter) :
       i < j /\ records[j].previous = records[i].subject

\* C18: RecentClients(since) has returned what TotalClients() returns on the
\* same log whenever the second of since is not later than the second of
\* any record of the log.
RecentEqualsTotalFromTheStart ==
  (/\ ret.op = "RecentClients"
   /\ \A i \in Indices(records) : ret.since \div TicksPerSecond <= records[i].utcTime) =>
    ret.count = countSinks(adjacencyLists(records, NoSince).outgoing)

\* RecentClients has been asked from an instant later than every record's,
\* yet of the same second, on a log with a link.
RecentEqualsTotalWitness ==
  /\ ret.op = "RecentClients"
  /\ ret.since = TicksPerSecond + 1
  /\ ret.count = 1
  /\ Len(records) = 2
  /\ \A i \in Indices(records) : records[i].utcTime = 1
  /\ records[2].previous = records[1].subject
  /\ records[2].subject # records[1].subject

\* C19 as claimed, in the half that does not rest on C8: every key of the
\* mapping mapCanonicalIDs returns is the subject of some record, so a root
\* that is only ever a previous is no key.
MappingKeysAreSubjects ==
  ret.op = "OperationsByClient" =>
    /\ DOMAIN ret.ids \subseteq SubjectsAt(records, Indices(records))
    /\ UnseenRoots(records) \cap DOMAIN ret.ids = {}

\* C19, amended: a root that is only ever a previous is a key of the mapping
\* mapCanonicalIDs returns, mapped to itself; the keys of the mapping are
\* those roots and the subjects that links lead to from some root.
MappingKeysAreReached ==
  ret.op = "OperationsByClient" =>
    /\ \A r \in UnseenRoots(records) : r \in DOMAIN ret.ids /\ ret.ids[r] = r
    /\ DOMAIN ret.ids
         = UnseenRoots(records)
             \cup (SubjectsAt(records, Indices(records))
                    \cap ReachFrom(records, RootsOf(records)))

\* The mapping returned has a root that is the subject of no record among
\* its keys, and the subjects that descend from it.
MappingKeysWitness ==
  /\ ret.op = "OperationsByClient"
  /\ Len(records) = 2
  /\ \E r \in UnseenRoots(records) :
       /\ r \in DOMAIN ret.ids
       /\ Cardinality(ReachFrom(records, {r})) = 3
       /\ Cardinality(DOMAIN ret.ids) = 3

\* C4: a call of OperationsByClient that has taken the lock returns and
\* releases it (said of the walks followed here, whose stack stays within
\* MaxStack).
CallsReturn == mux ~> (~mux \/ Len(walk.nodes) > MaxStack)

====
